---- MODULE Spec2Model ----
(***************************************************************************)
(* Model of the StormGlass forecast client                                 *)
(* (src/src/clients/stormGlass.ts): the cache-aside fetchPoints, the       *)
(* upstream fetch with its error classification, and the response          *)
(* normalizer.                                                             *)
(*                                                                         *)
(* JavaScript values are modelled as follows.                              *)
(*  - an object is a function from its own keys (strings) to values; a     *)
(*    key the object does not have is not in its DOMAIN;                   *)
(*  - the result of a property read that may be `undefined` is an          *)
(*    "optional": <<>> for undefined, <<v>> for the value v;               *)
(*  - a string that is built by a template is the sequence of its pieces.  *)
(***************************************************************************)
EXTENDS Integers, Sequences, FiniteSets, TLC

\* ------------------------------------------------------------------ bounds

\* Number of fetchPoints invocations in one behaviour.
NumCalls == 2

\* Longest `hours` array drawn for the normalizer.
MaxHours == 2

\* Largest absolute value of a coordinate drawn for the key derivation.
MaxCoord == 11

\* The configured cache TTL ('cacheTtl' of App.resources.StormGlass), in ticks.
CacheTtl == 2

\* ------------------------------------------------------- JavaScript values

Undefined == <<>>

Some(v) == <<v>>

\* obj[k] for a key that may be missing: undefined when obj has no key k.
Get(obj, k) == IF k \in DOMAIN obj THEN Some(obj[k]) ELSE Undefined

\* opt?.[k]: undefined when opt is undefined, else the read of k.
OptGet(opt, k) == IF opt = Undefined THEN Undefined ELSE Get(opt[1], k)

\* Truthiness of an optional number: undefined and 0 are falsy.
TruthyNum(opt) == opt # Undefined /\ opt[1] # 0

\* Truthiness of an optional string: undefined and "" are falsy.
TruthyStr(opt) == opt # Undefined /\ opt[1] # ""

\* Truthiness of an optional object or array: only undefined is falsy
\* (an empty array is an object, hence truthy).
TruthyObj(opt) == opt # Undefined

RECURSIVE Digits(_)
Digits(n) ==
  IF n < 10
    THEN <<CASE n = 0 -> "0" [] n = 1 -> "1" [] n = 2 -> "2" [] n = 3 -> "3"
             [] n = 4 -> "4" [] n = 5 -> "5" [] n = 6 -> "6" [] n = 7 -> "7"
             [] n = 8 -> "8" [] n = 9 -> "9">>
    ELSE Digits(n \div 10) \o Digits(n % 10)

\* `${n}` for an integer n: its decimal digits, with a leading minus sign.
NumberToString(n) == IF n < 0 THEN <<"-">> \o Digits(0 - n) ELSE Digits(n)

\* ---------------------------------------------------------------- client

\* readonly stormGlassAPIParams, as the list of its comma-separated names.
stormGlassAPIParams ==
  <<"swellDirection", "swellHeight", "swellPeriod", "waveDirection",
    "waveHeight", "windDirection", "windSpeed">>

stormGlassAPISource == "noaa"

Fields == {stormGlassAPIParams[i] : i \in DOMAIN stormGlassAPIParams}

\* A mutant of isValidPoint: only undefined counts as invalid, 0 is accepted.
isValidPointZeroOk(point) ==
  /\ TruthyStr(Get(point, "time"))
  /\ \A f \in Fields : OptGet(Get(point, f), stormGlassAPISource) # Undefined

isValidPoint(point) ==
  /\ TruthyStr(Get(point, "time"))
  /\ TruthyNum(OptGet(Get(point, "swellDirection"), stormGlassAPISource))
  /\ TruthyNum(OptGet(Get(point, "swellHeight"), stormGlassAPISource))
  /\ TruthyNum(OptGet(Get(point, "swellPeriod"), stormGlassAPISource))
  /\ TruthyNum(OptGet(Get(point, "waveDirection"), stormGlassAPISource))
  /\ TruthyNum(OptGet(Get(point, "waveHeight"), stormGlassAPISource))
  /\ TruthyNum(OptGet(Get(point, "windDirection"), stormGlassAPISource))
  /\ TruthyNum(OptGet(Get(point, "windSpeed"), stormGlassAPISource))

\* A mutant of ToForecastPoint: swellPeriod is read from the swellHeight
\* mapping.
ToForecastPointCopiedField(point) ==
  [time           |-> point.time,
   swellDirection |-> point.swellDirection[stormGlassAPISource],
   swellHeight    |-> point.swellHeight[stormGlassAPISource],
   swellPeriod    |-> point.swellHeight[stormGlassAPISource],
   waveDirection  |-> point.waveDirection[stormGlassAPISource],
   waveHeight     |-> point.waveHeight[stormGlassAPISource],
   windDirection  |-> point.windDirection[stormGlassAPISource],
   windSpeed      |-> point.windSpeed[stormGlassAPISource]]

\* The object literal of normalizeResponse's map callback.
ToForecastPoint(point) ==
  [time           |-> point.time,
   swellDirection |-> point.swellDirection[stormGlassAPISource],
   swellHeight    |-> point.swellHeight[stormGlassAPISource],
   swellPeriod    |-> point.swellPeriod[stormGlassAPISource],
   waveDirection  |-> point.waveDirection[stormGlassAPISource],
   waveHeight     |-> point.waveHeight[stormGlassAPISource],
   windDirection  |-> point.windDirection[stormGlassAPISource],
   windSpeed      |-> point.windSpeed[stormGlassAPISource]]

\* The outcome of a call that may throw.
Returned(v) == [ok |-> TRUE, value |-> v]

Thrown(e) == [ok |-> FALSE, error |-> e]

\* The TypeError of reading `.filter` of undefined.
TypeErrorFilter ==
  [name |-> "TypeError",
   message |-> <<"Cannot read properties of undefined (reading 'filter')">>]

\* A mutant of normalizeResponse: the valid points come out in reverse order.
normalizeResponseReversed(points) ==
  IF Get(points, "hours") = Undefined
    THEN Thrown(TypeErrorFilter)
    ELSE LET kept == SelectSeq(points.hours, isValidPoint)
         IN  Returned([i \in 1..Len(kept) |->
                         ToForecastPoint(kept[Len(kept) + 1 - i])])

normalizeResponse(points) ==
  IF Get(points, "hours") = Undefined
    THEN Thrown(TypeErrorFilter)
    ELSE LET kept == SelectSeq(points.hours, isValidPoint)
         IN  Returned([i \in 1..Len(kept) |-> ToForecastPoint(kept[i])])

\* A mutant of getCacheKey: no separator between the two coordinates.
getCacheKeyNoSeparator(lat, lng) ==
  <<"forecast_points_">> \o NumberToString(lat) \o NumberToString(lng)

getCacheKey(lat, lng) ==
  <<"forecast_points_">> \o NumberToString(lat) \o <<"_">> \o NumberToString(lng)

\* ------------------------------------------------------------ error classes

\* class ClientRequestError: `${internalMessage}: ${message}`.
ClientRequestError(message) ==
  [name |-> "ClientRequestError",
   message |-> <<"Unexpected error when trying to communicate to StormGlass",
                 ": ">> \o message]

\* class StormGlassResponseError: `${stormGlassErrorMessage}: ${message}`.
StormGlassResponseError(message) ==
  [name |-> "StormGlassResponseError",
   message |-> <<"Unexpected error returned by the StormGlass Service",
                 ": ">> \o message]

\* JSON.stringify of an upstream error body, an object {errors: <string>}.
JSONStringify(data) == <<"{", "errors", ":">> \o data.errors \o <<"}">>

\* HTTPUtil.Request.isRequestError: the error carries an upstream response
\* with a status.
isRequestError(err) ==
  LET response == Get(err, "response")
  IN  response # Undefined /\ TruthyNum(OptGet(response, "status"))

\* A mutant of the catch block: the status code is left out of the message.
classifyErrorNoStatus(err) ==
  IF isRequestError(err)
    THEN StormGlassResponseError(
           <<"Error: ">> \o JSONStringify(err.response.data) \o <<" Code: ">>)
    ELSE ClientRequestError(err.message)

\* The catch block of getForecastPointsFromApi: the error it throws for the
\* error err it caught.
classifyError(err) ==
  IF isRequestError(err)
    THEN StormGlassResponseError(
           <<"Error: ">> \o JSONStringify(err.response.data)
             \o <<" Code: ">> \o NumberToString(err.response.status))
    ELSE ClientRequestError(err.message)

\* getForecastPointsFromApi once request.get has settled with `response`
\* (Returned([data |-> body]) or Thrown(err)): the try block normalizes the
\* body, the catch block classifies whatever the try block threw.
getForecastPointsFromApi(response) ==
  LET tried == IF response.ok
                 THEN normalizeResponse(response.value.data)
                 ELSE response
  IN  IF tried.ok THEN tried ELSE Thrown(classifyError(tried.error))

\* ------------------------------------------------------------- cache port

\* The cache store is a function from the keys it holds to their entries,
\* [value, ttl, writer]: the stored sequence, the ticks the entry has left,
\* and the call whose set stored it.

\* cacheUtil.get(key) on a working store: the stored value, or undefined.
CacheGet(store, key) ==
  IF key \in DOMAIN store THEN Some(store[key].value) ELSE Undefined

\* The store after a successful cacheUtil.set(key, value, ttl) by call c.
CacheSet(store, key, value, ttl, c) ==
  [k \in DOMAIN store \cup {key} |->
     IF k = key THEN [value |-> value, ttl |-> ttl, writer |-> c]
                ELSE store[k]]

\* The store after one tick of time: every entry has one tick less, and an
\* entry with none left is gone.
CacheTick(store) ==
  [k \in {j \in DOMAIN store : store[j].ttl > 1} |->
     [store[k] EXCEPT !.ttl = @ - 1]]

\* The error of a failing cache operation.
CacheFailure == [name |-> "Error", message |-> <<"cache unavailable">>]

\* What cacheUtil.get(key) may do: return the stored value (or undefined when
\* the key is absent), fail by returning undefined, or throw.
CacheGetOutcomes(store, key) ==
  {Returned(CacheGet(store, key)), Returned(Undefined), Thrown(CacheFailure)}

\* What cacheUtil.set(...) may do: store and return true, store nothing and
\* return false, or throw.
CacheSetOutcomes == {"stored", "refused", "raised"}

\* A mutant of getForecastPointsFromCache: the test of the cached value is
\* inverted.
getForecastPointsFromCacheInverted(got) ==
  IF ~got.ok THEN got
  ELSE IF TruthyObj(got.value) THEN Returned(Undefined)
  ELSE Returned(got.value)

\* getForecastPointsFromCache, given what cacheUtil.get did.
getForecastPointsFromCache(got) ==
  IF ~got.ok THEN got
  ELSE IF ~TruthyObj(got.value) THEN Returned(Undefined)
  ELSE Returned(got.value)

\* A mutant of setForecastPointsInCache: a TTL of its own instead of the
\* configured one.
setForecastPointsInCacheOwnTtl(key, forecastPoints) ==
  [key |-> key, value |-> forecastPoints, ttl |-> CacheTtl + 1]

\* A mutant of setForecastPointsInCache: an empty array is cached instead of
\* the points.
setForecastPointsInCacheNoPoints(key, forecastPoints) ==
  [key |-> key, value |-> <<>>, ttl |-> CacheTtl]

\* The arguments setForecastPointsInCache hands to cacheUtil.set.
setForecastPointsInCache(key, forecastPoints) ==
  [key |-> key, value |-> forecastPoints, ttl |-> CacheTtl]

\* ------------------------------------------------------------------ inputs

CallIds == 1..NumCalls

\* The coordinates the calls are made with.
Coords == {<<1, 11>>, <<11, 1>>}

SourceNames == {stormGlassAPISource, "sg"}

FieldIndex(f) == CHOOSE i \in DOMAIN stormGlassAPIParams : stormGlassAPIParams[i] = f

\* A complete hourly record: field number i holds base + i under the
\* configured source and 90 + i under another source.
GoodPoint(t, base) ==
  [k \in Fields \cup {"time"} |->
     IF k = "time" THEN t
     ELSE [s \in SourceNames |->
             IF s = stormGlassAPISource THEN base + FieldIndex(k)
                                        ELSE 90 + FieldIndex(k)]]

\* p without its key k.
WithoutKey(p, k) == [j \in DOMAIN p \ {k} |-> p[j]]

\* The records with one defect in field f.
FieldDefects(p, f) ==
  { WithoutKey(p, f),
    [p EXCEPT ![f] = WithoutKey(p[f], stormGlassAPISource)],
    [p EXCEPT ![f] = <<>>],
    [p EXCEPT ![f] = [p[f] EXCEPT ![stormGlassAPISource] = 0]] }

\* The records with a defect in the time field.
TimeDefects(p) == { WithoutKey(p, "time"), [p EXCEPT !["time"] = ""] }

\* The hourly records the normalizer is given.
RawPoints ==
  {GoodPoint(t, b) : t \in {"t1", "t2"}, b \in {0, 10}}
    \cup UNION {FieldDefects(GoodPoint("t1", 0), f) : f \in Fields}
    \cup TimeDefects(GoodPoint("t1", 0))

SeqsUpTo(S, n) == UNION {[1..m -> S] : m \in 0..n}

\* A success body without an `hours` array.
NoHoursBody == [meta |-> "m"]

\* The success bodies the normalizer is given.
NormBodies ==
  {NoHoursBody} \cup {[hours |-> h] : h \in SeqsUpTo(RawPoints, MaxHours)}

\* The success bodies the upstream returns to the client.
ClientBodies ==
  { NoHoursBody,
    [hours |-> <<>>],
    [hours |-> <<GoodPoint("t1", 0)>>],
    [hours |-> <<GoodPoint("t1", 10),
                 [GoodPoint("t1", 0) EXCEPT !["waveHeight"] = <<>>],
                 GoodPoint("t2", 0)>>] }

\* The errors request.get rejects with: without and with an upstream response.
TransportErrors ==
  { [name |-> "Error", message |-> <<"Network Error">>],
    [name |-> "Error", message |-> <<"Request failed with status code 429">>,
     response |-> [data |-> [errors |-> <<"Rate Limit reached">>],
                   status |-> 429]] }

\* How request.get may settle.
ResponseOutcomes ==
  {Returned([data |-> b]) : b \in ClientBodies}
    \cup {Thrown(e) : e \in TransportErrors}

\* ------------------------------------------------------------------- state

VARIABLES
  calls,    \* calls[c]: the state of invocation c of fetchPoints
  cache,    \* the cache store
  nBody,    \* normalizer run: the raw body it is given
  nResult,  \* normalizer run: <<>> before it ran, then <<its outcome>>
  nKept,    \* normalizer run: what the filter callback answered, per record
  kIn,      \* key derivation run: the two coordinate pairs it is given
  kOut      \* key derivation run: the keys derived so far, in order

vars == <<calls, cache, nBody, nResult, nKept, kIn, kOut>>

None == <<>>

\* An invocation that has not started.
IdleCall ==
  [pc        |-> "idle",  \* idle, awaitApi, apiSettled, done, failed
   lat       |-> 0,
   lng       |-> 0,
   got       |-> None,    \* <<what cacheUtil.get did>>
   lookupKey |-> <<>>,    \* the key handed to cacheUtil.get
   stored    |-> None,    \* <<the entry the store held under it>>, if any
   writesSeen |-> 0,      \* the stored cache writes made before the get
   requests  |-> <<>>,    \* the upstream requests sent
   response  |-> None,    \* <<how request.get settled>>
   api       |-> None,    \* <<how getForecastPointsFromApi settled>>
   sets      |-> <<>>,    \* the cacheUtil.set invocations made
   setResult |-> None,    \* <<what cacheUtil.set did>>
   writeNo   |-> 0,       \* the rank of its stored cache write, 0 if none
   outcome   |-> None]    \* <<how fetchPoints settled>>

ClientInit == calls = [c \in CallIds |-> IdleCall] /\ cache = <<>>

NormIdle == nBody = NoHoursBody /\ nResult = None /\ nKept = <<>>

KeyIdle == kIn = <<>> /\ kOut = <<>>

Init == ClientInit /\ NormIdle /\ KeyIdle

\* ----------------------------------------------------------------- actions

\* The GET that getForecastPointsFromApi sends for (lat, lng).
ApiRequest(lat, lng) ==
  [path   |-> "/weather/point",
   lat    |-> NumberToString(lat),
   lng    |-> NumberToString(lng),
   params |-> stormGlassAPIParams,
   source |-> stormGlassAPISource]

\* A mutant of fetchPointsStart: a cached value does not end the call, the
\* upstream request is sent all the same.
fetchPointsStartNoShortCircuit(call, lat, lng, got) ==
  LET cachedForecastPoints == getForecastPointsFromCache(got)
      started == [call EXCEPT !.lat = lat, !.lng = lng, !.got = Some(got)]
  IN  IF ~cachedForecastPoints.ok
        THEN [started EXCEPT !.pc = "failed",
                             !.outcome = Some(cachedForecastPoints)]
        ELSE [started EXCEPT !.pc = "awaitApi",
                             !.requests = Append(@, ApiRequest(lat, lng))]

\* A mutant of fetchPointsStart: a hit writes the cached value back, which
\* renews its TTL.
fetchPointsStartRefreshOnHit(call, lat, lng, got) ==
  LET cachedForecastPoints == getForecastPointsFromCache(got)
      started == [call EXCEPT !.lat = lat, !.lng = lng, !.got = Some(got)]
  IN  IF ~cachedForecastPoints.ok
        THEN [started EXCEPT !.pc = "failed",
                             !.outcome = Some(cachedForecastPoints)]
      ELSE IF ~TruthyObj(cachedForecastPoints.value)
        THEN [started EXCEPT !.pc = "awaitApi",
                             !.requests = Append(@, ApiRequest(lat, lng))]
      ELSE [started EXCEPT
              !.pc = "done",
              !.sets = Append(@, setForecastPointsInCache(
                                   getCacheKey(lat, lng),
                                   cachedForecastPoints.value[1])),
              !.outcome = Some(Returned(cachedForecastPoints.value[1]))]

\* fetchPoints up to its first suspension, given what cacheUtil.get did: a
\* throw of the cache read rejects the call, a miss sends the upstream
\* request and suspends, a hit returns the cached value.
fetchPointsStart(call, lat, lng, got) ==
  LET cachedForecastPoints == getForecastPointsFromCache(got)
      started == [call EXCEPT !.lat = lat, !.lng = lng, !.got = Some(got)]
  IN  IF ~cachedForecastPoints.ok
        THEN [started EXCEPT !.pc = "failed",
                             !.outcome = Some(cachedForecastPoints)]
      ELSE IF ~TruthyObj(cachedForecastPoints.value)
        THEN [started EXCEPT !.pc = "awaitApi",
                             !.requests = Append(@, ApiRequest(lat, lng))]
      ELSE [started EXCEPT !.pc = "done",
                           !.outcome = Some(Returned(cachedForecastPoints.value[1]))]

\* A mutant of fetchPointsRejected: the error is wrapped once more.
fetchPointsRejectedWrapped(call) ==
  [call EXCEPT !.pc = "failed",
               !.outcome = Some(Thrown(ClientRequestError(
                                         call.api[1].error.message)))]

\* A mutant of fetchPointsRejected: a failed fetch caches an empty sequence.
fetchPointsRejectedCachesEmpty(call) ==
  [call EXCEPT !.pc = "failed",
               !.sets = Append(@, setForecastPointsInCache(
                                    getCacheKey(call.lat, call.lng), <<>>)),
               !.outcome = Some(call.api[1])]

\* fetchPoints resumes from `await getForecastPointsFromApi` with a rejection:
\* the error is rethrown as it is, and nothing else is done.
fetchPointsRejected(call) ==
  [call EXCEPT !.pc = "failed", !.outcome = Some(call.api[1])]

\* fetchPoints resumes from the await with the fetched points, given what
\* cacheUtil.set does: the cache is written under the key of (lat, lng) and
\* the points are returned, unless the write throws.
fetchPointsResolved(call, setOutcome) ==
  LET forecastPoints == call.api[1].value
      written == [call EXCEPT
        !.sets = Append(@, setForecastPointsInCache(
                             getCacheKey(call.lat, call.lng), forecastPoints)),
        !.setResult = Some(setOutcome)]
  IN  IF setOutcome = "raised"
        THEN [written EXCEPT !.pc = "failed",
                             !.outcome = Some(Thrown(CacheFailure))]
        ELSE [written EXCEPT !.pc = "done",
                             !.outcome = Some(Returned(forecastPoints))]

\* The number of cache writes stored so far.
WritesStored == Cardinality({d \in CallIds : calls[d].writeNo > 0})

\* The store after the step that took invocation c from `before` to `after`:
\* a cacheUtil.set made in the step, and stored, has taken effect.
CacheAfter(store, before, after, c, setOutcome) ==
  IF Len(after.sets) > Len(before.sets) /\ setOutcome = "stored"
    THEN LET args == after.sets[Len(after.sets)]
         IN  CacheSet(store, args.key, args.value, args.ttl, c)
    ELSE store

\* Invocation c of fetchPoints(lat, lng) starts: the cache read and, on a
\* miss, the sending of the upstream request.
FetchPoints(c) ==
  /\ calls[c].pc = "idle"
  /\ \A d \in CallIds : d < c => calls[d].pc # "idle"
  /\ \E coord \in Coords :
       LET key == getCacheKey(coord[1], coord[2])
       IN  \E got \in CacheGetOutcomes(cache, key) :
             LET after == fetchPointsStart(calls[c], coord[1], coord[2], got)
             IN  /\ calls' = [calls EXCEPT ![c] =
                       [after EXCEPT !.lookupKey = key,
                                     !.stored = Get(cache, key),
                                     !.writesSeen = WritesStored]]
                 /\ cache' = CacheAfter(cache, calls[c], after, c, "stored")
  /\ UNCHANGED <<nBody, nResult, nKept, kIn, kOut>>

\* The upstream request of invocation c settles, and getForecastPointsFromApi
\* with it.
ApiSettle(c) ==
  /\ calls[c].pc = "awaitApi"
  /\ \E response \in ResponseOutcomes :
       calls' = [calls EXCEPT ![c] =
         [@ EXCEPT !.pc = "apiSettled",
                   !.response = Some(response),
                   !.api = Some(getForecastPointsFromApi(response))]]
  /\ UNCHANGED <<cache, nBody, nResult, nKept, kIn, kOut>>

\* Invocation c resumes after a rejected await.
FetchPointsRejected(c) ==
  /\ calls[c].pc = "apiSettled"
  /\ ~calls[c].api[1].ok
  /\ LET after == fetchPointsRejected(calls[c])
     IN  /\ calls' = [calls EXCEPT ![c] = after]
         /\ cache' = CacheAfter(cache, calls[c], after, c, "stored")
  /\ UNCHANGED <<nBody, nResult, nKept, kIn, kOut>>

\* Invocation c resumes after a resolved await: the cache write, which the
\* store performs, refuses or fails, and the return.
FetchPointsResolved(c) ==
  /\ calls[c].pc = "apiSettled"
  /\ calls[c].api[1].ok
  /\ \E setOutcome \in CacheSetOutcomes :
       LET after == fetchPointsResolved(calls[c], setOutcome)
       IN  /\ calls' = [calls EXCEPT ![c] =
                 [after EXCEPT !.writeNo =
                    IF Len(after.sets) > Len(calls[c].sets)
                         /\ setOutcome = "stored"
                      THEN WritesStored + 1 ELSE 0]]
           /\ cache' = CacheAfter(cache, calls[c], after, c, setOutcome)
  /\ UNCHANGED <<nBody, nResult, nKept, kIn, kOut>>

\* Time passes by one tick of the cache's clock.
Tick ==
  /\ DOMAIN cache # {}
  /\ cache' = CacheTick(cache)
  /\ UNCHANGED <<calls, nBody, nResult, nKept, kIn, kOut>>

Next ==
  \/ \E c \in CallIds : FetchPoints(c)
  \/ \E c \in CallIds : ApiSettle(c)
  \/ \E c \in CallIds : FetchPointsRejected(c)
  \/ \E c \in CallIds : FetchPointsResolved(c)
  \/ Tick

Spec == Init /\ [][Next]_vars

\* ---------------------------------------------------- the normalizer alone

NormInit ==
  /\ ClientInit
  /\ KeyIdle
  /\ nBody \in NormBodies
  /\ nResult = None
  /\ nKept = <<>>

\* normalizeResponse(nBody) runs; nKept records the filter callback's answers.
Normalize ==
  /\ nResult = None
  /\ nResult' = Some(normalizeResponse(nBody))
  /\ nKept' = IF Get(nBody, "hours") = Undefined THEN <<>>
              ELSE [i \in 1..Len(nBody.hours) |-> isValidPoint(nBody.hours[i])]
  /\ UNCHANGED <<calls, cache, nBody, kIn, kOut>>

NormNext == Normalize

NormSpec == NormInit /\ [][NormNext]_vars

\* ------------------------------------------------- the key derivation alone

\* The coordinate pairs the key derivation is given.
KeyCoords == (-MaxCoord..MaxCoord) \X (-MaxCoord..MaxCoord)

KeyInit ==
  /\ ClientInit
  /\ NormIdle
  /\ kIn \in KeyCoords \X KeyCoords
  /\ kOut = <<>>

\* getCacheKey runs on the first pair, then on the second, then on the first
\* pair once more.
DeriveKey ==
  /\ Len(kOut) < 3
  /\ LET coord == IF Len(kOut) = 1 THEN kIn[2] ELSE kIn[1]
     IN  kOut' = Append(kOut, getCacheKey(coord[1], coord[2]))
  /\ UNCHANGED <<calls, cache, nBody, nResult, nKept, kIn>>

KeyNext == DeriveKey

KeySpec == KeyInit /\ [][KeyNext]_vars

\* ------------------------------------------------- properties of the client

\* t occurs in s as a run of consecutive pieces.
Contains(s, t) ==
  \E i \in 0..(Len(s) - Len(t)) : SubSeq(s, i + 1, i + Len(t)) = t

\* cacheUtil.get of invocation c returned a value.
GotValue(c) ==
  /\ calls[c].got # None
  /\ calls[c].got[1].ok
  /\ calls[c].got[1].value # Undefined

\* The fetchPoints invocation whose set stored the entry that the get of
\* invocation c returned; 0 when the get returned no stored entry.
ReadFrom(c) ==
  IF GotValue(c) /\ calls[c].stored # None THEN calls[c].stored[1].writer ELSE 0

\* getForecastPointsFromApi of invocation c resolved.
ApiResolved(c) == calls[c].api # None /\ calls[c].api[1].ok

\* getForecastPointsFromApi of invocation c rejected.
ApiRejected(c) == calls[c].api # None /\ ~calls[c].api[1].ok

\* C1: whenever the cache get of a fetchPoints call returns a non-empty
\* sequence, the call has completed returning exactly that sequence and has
\* sent no upstream request.
C1_CacheHitShortCircuit ==
  \A c \in CallIds :
    (GotValue(c) /\ calls[c].got[1].value[1] # <<>>)
      => /\ calls[c].pc = "done"
         /\ calls[c].outcome = Some(Returned(calls[c].got[1].value[1]))
         /\ calls[c].requests = <<>>

\* A call whose cache get returned a non-empty sequence has completed.
C1_Witness ==
  \E c \in CallIds :
    /\ GotValue(c)
    /\ calls[c].got[1].value[1] # <<>>
    /\ calls[c].pc = "done"

\* C2: a call that missed and whose upstream fetch succeeded has, once it is
\* over, invoked the cache set exactly once, with the key used for the
\* lookup, the normalized sequence and the configured TTL; when it returns,
\* it returns that same sequence.
C2_CachePopulation ==
  \A c \in CallIds :
    (ApiResolved(c) /\ calls[c].pc \in {"done", "failed"})
      => /\ calls[c].sets = << [key   |-> calls[c].lookupKey,
                                value |-> calls[c].api[1].value,
                                ttl   |-> CacheTtl] >>
         /\ calls[c].pc = "done"
              => calls[c].outcome = Some(Returned(calls[c].sets[1].value))

\* A call has missed, fetched a non-empty sequence, written it and returned.
C2_Witness ==
  \E c \in CallIds :
    /\ ApiResolved(c)
    /\ calls[c].api[1].value # <<>>
    /\ calls[c].pc = "done"
    /\ Len(calls[c].sets) = 1

\* C3: when a call d for the coordinates of an earlier call c reads the cache
\* entry that c's write stored (the write succeeded and the entry has not
\* expired), d returns what c returned, d sends no upstream request, and c
\* sent exactly one: one upstream request in total.
C3_MissThenHit ==
  \A c, d \in CallIds :
    (/\ c # d
     /\ calls[d].lat = calls[c].lat
     /\ calls[d].lng = calls[c].lng
     /\ ReadFrom(d) = c)
      => /\ calls[c].pc = "done"
         /\ calls[d].pc = "done"
         /\ calls[d].outcome = calls[c].outcome
         /\ Len(calls[c].requests) = 1
         /\ calls[d].requests = <<>>

\* The first call found the cache empty, and the second call, for the same
\* coordinates, has read the non-empty entry the first one stored.
C3_Witness ==
  /\ NumCalls >= 2
  /\ calls[1].stored = None
  /\ calls[2].lat = calls[1].lat
  /\ calls[2].lng = calls[1].lng
  /\ ReadFrom(2) = 1
  /\ calls[2].pc = "done"
  /\ calls[2].outcome[1].value # <<>>

\* The cache get of invocation c failed: it threw, or it returned undefined
\* although the store held an entry under the key.
ReadFailed(c) ==
  /\ calls[c].got # None
  /\ \/ ~calls[c].got[1].ok
     \/ calls[c].got[1] = Returned(Undefined) /\ calls[c].stored # None

\* C4: a failed cache read is never surfaced: the call goes on as on a miss,
\* sends the upstream request, and returns the fresh sequence when the
\* upstream fetch succeeds.
C4_CacheReadFailureIsMiss ==
  \A c \in CallIds :
    ReadFailed(c)
      => /\ Len(calls[c].requests) = 1
         /\ calls[c].outcome # Some(calls[c].got[1])
         /\ (ApiResolved(c) /\ calls[c].setResult \in {Some("stored"), Some("refused")})
              => calls[c].outcome = Some(Returned(calls[c].api[1].value))

\* C5: a failed cache write (set returns false or throws) after a successful
\* upstream fetch does not fail the call: it completes and returns the
\* freshly fetched normalized sequence.
C5_CacheWriteFailureNotSurfaced ==
  \A c \in CallIds :
    (ApiResolved(c) /\ calls[c].setResult \in {Some("refused"), Some("raised")})
      => /\ calls[c].pc = "done"
         /\ calls[c].outcome = Some(Returned(calls[c].api[1].value))

\* C6: a transport failure that carries an upstream response makes the fetch
\* path throw a StormGlassResponseError whose message holds the serialized
\* body and the status code; a transport failure without a response makes it
\* throw a ClientRequestError whose message holds the underlying message;
\* every failure yields exactly one of the two kinds.
C6_ErrorClassification ==
  \A c \in CallIds :
    (calls[c].response # None /\ ~calls[c].response[1].ok)
      => LET err    == calls[c].response[1].error
             thrown == calls[c].api[1]
         IN  /\ ~thrown.ok
             /\ thrown.error.name \in {"StormGlassResponseError", "ClientRequestError"}
             /\ IF "response" \in DOMAIN err
                  THEN /\ thrown.error.name = "StormGlassResponseError"
                       /\ Contains(thrown.error.message,
                                   JSONStringify(err.response.data))
                       /\ Contains(thrown.error.message,
                                   NumberToString(err.response.status))
                  ELSE /\ thrown.error.name = "ClientRequestError"
                       /\ Contains(thrown.error.message, err.message)

\* Both kinds of failure have been classified, one by each of two calls.
C6_Witness ==
  \E c, d \in CallIds :
    /\ ApiRejected(c)
    /\ ApiRejected(d)
    /\ ~calls[c].response[1].ok
    /\ ~calls[d].response[1].ok
    /\ "response" \in DOMAIN calls[c].response[1].error
    /\ "response" \notin DOMAIN calls[d].response[1].error
    /\ calls[c].api[1].error.name = "StormGlassResponseError"
    /\ calls[d].api[1].error.name = "ClientRequestError"

\* C7: when the upstream fetch path throws on a miss, the call, once it is
\* over, has failed with that very error, has returned no data, has sent the
\* upstream request once only and has written nothing to the cache.
C7_UpstreamErrorPropagates ==
  \A c \in CallIds :
    /\ Len(calls[c].requests) <= 1
    /\ (ApiRejected(c) /\ calls[c].pc # "apiSettled")
         => /\ calls[c].pc = "failed"
            /\ calls[c].outcome = Some(Thrown(calls[c].api[1].error))
            /\ Len(calls[c].requests) = 1
            /\ calls[c].sets = <<>>

\* A call has failed with the error its upstream fetch path threw.
C7_Witness ==
  \E c \in CallIds :
    /\ ApiRejected(c)
    /\ calls[c].pc = "failed"
    /\ calls[c].outcome = Some(calls[c].api[1])

\* C10: no successful upstream response makes the fetch path fail: whatever
\* the success body, normalization completes and the fetch path resolves.
C10_NormalizationNeverRaises ==
  \A c \in CallIds :
    (calls[c].response # None /\ calls[c].response[1].ok)
      => calls[c].api[1].ok

\* --------------------------------------------- properties of the normalizer

\* The normalizer has run on a body that has an `hours` array.
Normalized == nResult # None /\ "hours" \in DOMAIN nBody

\* Record r has no value, or the value 0, under the configured source name
\* in its field f.
MissingOrZero(r, f) ==
  \/ f \notin DOMAIN r
  \/ stormGlassAPISource \notin DOMAIN r[f]
  \/ r[f][stormGlassAPISource] = 0

\* Record r has no time, or an empty one.
NoTime(r) == "time" \notin DOMAIN r \/ r.time = ""

\* The number of TRUE entries among the first i of flags.
Rank(flags, i) == Cardinality({k \in 1..i : flags[k]})

\* out holds, in their order, the points of exactly the flagged records.
PointsOfFlagged(out, hours, flags) ==
  /\ Len(out) = Rank(flags, Len(hours))
  /\ \A i \in 1..Len(hours) :
       flags[i] => out[Rank(flags, i)] = ToForecastPoint(hours[i])

\* C8 as stated: with N records of which M have a missing or zero value under
\* the source name in one of the seven fields, normalize returns exactly
\* N - M points, in the order of the records they come from.
C8_CountBySevenFields ==
  Normalized =>
    /\ nResult[1].ok
    /\ PointsOfFlagged(nResult[1].value, nBody.hours,
         [i \in 1..Len(nBody.hours) |->
            ~\E f \in Fields : MissingOrZero(nBody.hours[i], f)])

\* C8 as amended: M also counts the records whose time is missing or empty;
\* normalize returns exactly N - M points, in the order of the records they
\* come from.
C8_CountByTimeAndFields ==
  Normalized =>
    /\ nResult[1].ok
    /\ PointsOfFlagged(nResult[1].value, nBody.hours,
         [i \in 1..Len(nBody.hours) |->
            /\ ~NoTime(nBody.hours[i])
            /\ ~\E f \in Fields : MissingOrZero(nBody.hours[i], f)])

\* Of two records, one complete and one complete but for its time, the
\* normalizer has returned one point.
C8_Witness ==
  /\ Normalized
  /\ Len(nBody.hours) = 2
  /\ \E i \in 1..2 :
       /\ NoTime(nBody.hours[i])
       /\ \A f \in Fields : ~MissingOrZero(nBody.hours[i], f)
  /\ Len(nResult[1].value) = 1

\* C9: a record is kept if and only if its time is non-empty and each of its
\* seven mappings holds a defined, non-zero value under the source name (so
\* a 0 is dropped like an absent value), and the points returned are as many
\* as the records kept.
C9_KeptIffTruthy ==
  Normalized =>
    /\ Len(nKept) = Len(nBody.hours)
    /\ \A i \in 1..Len(nBody.hours) :
         LET r == nBody.hours[i]
         IN  nKept[i] <=>
               /\ "time" \in DOMAIN r
               /\ r.time # ""
               /\ \A f \in Fields :
                    /\ f \in DOMAIN r
                    /\ stormGlassAPISource \in DOMAIN r[f]
                    /\ r[f][stormGlassAPISource] # 0
    /\ nResult[1].ok
    /\ Len(nResult[1].value) = Cardinality({i \in 1..Len(nKept) : nKept[i]})

\* A record with a genuine 0 under the source and a record without the field
\* have both been dropped.
C9_Witness ==
  /\ Normalized
  /\ Len(nBody.hours) = 2
  /\ \E f \in Fields :
       /\ f \in DOMAIN nBody.hours[1]
       /\ stormGlassAPISource \in DOMAIN nBody.hours[1][f]
       /\ nBody.hours[1][f][stormGlassAPISource] = 0
       /\ f \notin DOMAIN nBody.hours[2]
  /\ nKept = <<FALSE, FALSE>>
  /\ nResult[1].value = <<>>

\* The values the records of hours hold under source names other than the
\* configured one.
OtherSourceValues(hours) ==
  UNION {UNION {{hours[i][f][src] :
                   src \in DOMAIN hours[i][f] \ {stormGlassAPISource}} :
                f \in DOMAIN hours[i] \cap Fields} :
         i \in 1..Len(hours)}

\* C17: each point returned is the projection of the valid record it comes
\* from: the record's time as it is, and for each of the seven fields the
\* value stored under the configured source name; no value stored under
\* another source name appears in the output.
C17_PointsAreProjections ==
  Normalized =>
    /\ nResult[1].ok
    /\ Len(nResult[1].value) = Rank(nKept, Len(nKept))
    /\ \A i \in 1..Len(nKept) :
         nKept[i] =>
           LET p == nResult[1].value[Rank(nKept, i)]
               r == nBody.hours[i]
           IN  /\ DOMAIN p = Fields \cup {"time"}
               /\ p.time = r.time
               /\ \A f \in Fields : p[f] = r[f][stormGlassAPISource]
    /\ \A j \in 1..Len(nResult[1].value) : \A f \in Fields :
         nResult[1].value[j][f] \notin OtherSourceValues(nBody.hours)

\* Two valid records, which also hold values under another source name,
\* have been projected.
C17_Witness ==
  /\ Normalized
  /\ nKept = <<TRUE, TRUE>>
  /\ Len(nResult[1].value) = 2
  /\ nResult[1].value[1].time # nResult[1].value[2].time
  /\ OtherSourceValues(nBody.hours) # {}

\* ------------------------------------------ properties of concurrent calls

\* Invocations c and d were made with the same coordinates.
SameCoords(c, d) ==
  calls[c].lat = calls[d].lat /\ calls[c].lng = calls[d].lng

\* Invocation c observed a miss, fetched from the upstream with success and
\* had its cache write stored.
MissedAndWrote(c) ==
  /\ Len(calls[c].requests) = 1
  /\ ApiResolved(c)
  /\ calls[c].writeNo > 0

\* Invocations c and d overlapped: each read the cache before the other's
\* write was stored.
Overlapped(c, d) ==
  /\ calls[c].writesSeen < calls[d].writeNo
  /\ calls[d].writesSeen < calls[c].writeNo

\* The invocations whose cache write under key has been stored.
WritersOf(key) ==
  {c \in CallIds : calls[c].writeNo > 0 /\ calls[c].sets[1].key = key}

\* C12: two calls for the same coordinates that both missed, both fetched
\* and both wrote the cache have each completed with their own fetched
\* sequence; and every cache entry is the one of the last call that wrote its
\* key, holding the sequence that call fetched.
C12_UncoordinatedLastWriterWins ==
  /\ \A c, d \in CallIds :
       (c # d /\ SameCoords(c, d) /\ MissedAndWrote(c) /\ MissedAndWrote(d))
         => /\ calls[c].pc = "done"
            /\ calls[d].pc = "done"
            /\ calls[c].outcome = Some(Returned(calls[c].api[1].value))
            /\ calls[d].outcome = Some(Returned(calls[d].api[1].value))
  /\ \A key \in DOMAIN cache :
       LET w == cache[key].writer
       IN  /\ w \in WritersOf(key)
           /\ \A c \in WritersOf(key) : calls[c].writeNo <= calls[w].writeNo
           /\ cache[key].value = calls[w].api[1].value

\* Two calls for the same coordinates have overlapped: both missed, both
\* fetched, different sequences, and both wrote the cache, which holds the
\* sequence of the later writer.
C12_Witness ==
  \E c, d \in CallIds :
    /\ c # d
    /\ SameCoords(c, d)
    /\ MissedAndWrote(c)
    /\ MissedAndWrote(d)
    /\ Overlapped(c, d)
    /\ calls[c].api[1].value # calls[d].api[1].value
    /\ calls[c].writeNo < calls[d].writeNo
    /\ calls[d].lookupKey \in DOMAIN cache
    /\ cache[calls[d].lookupKey].value = calls[d].api[1].value

\* C18: a call ends in a ClientRequestError only when its upstream request
\* itself failed without an upstream response; a call whose request returned
\* with success never ends in a ClientRequestError.
C18_RequestErrorOnlyFromTransport ==
  \A c \in CallIds :
    (/\ calls[c].outcome # None
     /\ ~calls[c].outcome[1].ok
     /\ calls[c].outcome[1].error.name = "ClientRequestError")
      => /\ calls[c].response # None
         /\ ~calls[c].response[1].ok
         /\ "response" \notin DOMAIN calls[c].response[1].error

\* ------------------------------------------------ properties of the frame

\* C13: the step of a call that hits the cache invokes no cache set and
\* leaves the store, entries and remaining TTLs, as it was.
C13_HitWritesNothing ==
  [][\A c \in CallIds :
        (/\ calls[c].pc = "idle"
         /\ calls'[c].pc = "done"
         /\ calls'[c].got[1].ok
         /\ calls'[c].got[1].value # Undefined)
          => /\ cache' = cache
             /\ calls'[c].sets = <<>>]_vars

\* A call has hit an entry that had already lost part of its TTL, and the
\* entry is still as the call found it.
C13_Witness ==
  \E c \in CallIds :
    /\ GotValue(c)
    /\ calls[c].pc = "done"
    /\ calls[c].sets = <<>>
    /\ calls[c].lookupKey \in DOMAIN cache
    /\ cache[calls[c].lookupKey] = calls[c].stored[1]
    /\ cache[calls[c].lookupKey].ttl < CacheTtl

\* C14: a call whose cache get returns a present but empty sequence handles
\* it as a miss: it sends the upstream request, and once it is over after a
\* successful fetch it has written the fresh sequence to the cache.
C14_EmptyCachedIsMiss ==
  \A c \in CallIds :
    (GotValue(c) /\ calls[c].got[1].value[1] = <<>>)
      => /\ Len(calls[c].requests) = 1
         /\ (ApiResolved(c) /\ calls[c].pc \in {"done", "failed"})
              => Len(calls[c].sets) = 1

\* Invocation d, for the coordinates of c, read the cache after c's write was
\* stored and found the entry gone: its TTL had run out.
ReadAfterExpiry(c, d) ==
  /\ c # d
  /\ SameCoords(c, d)
  /\ calls[c].writeNo > 0
  /\ calls[d].got # None
  /\ calls[d].got[1].ok
  /\ calls[d].writesSeen >= calls[c].writeNo
  /\ calls[d].stored = None

\* C15: a call that reads the cache after the TTL of the entry for its
\* coordinates has run out treats the entry as absent: it sends the upstream
\* request and, after a successful fetch, writes the newly fetched sequence
\* under the same key, which the store then holds.
C15_ExpiredEntryIsRefetched ==
  \A c, d \in CallIds :
    ReadAfterExpiry(c, d)
      => /\ Len(calls[d].requests) = 1
         /\ (ApiResolved(d) /\ calls[d].pc \in {"done", "failed"})
              => calls[d].sets = << [key   |-> calls[c].sets[1].key,
                                     value |-> calls[d].api[1].value,
                                     ttl   |-> CacheTtl] >>
         /\ (/\ calls[d].lookupKey \in DOMAIN cache
             /\ cache[calls[d].lookupKey].writer = d)
              => cache[calls[d].lookupKey].value = calls[d].api[1].value

\* After the first call's entry expired, a second call for the same
\* coordinates has fetched a different sequence and the store holds it.
C15_Witness ==
  \E c, d \in CallIds :
    /\ ReadAfterExpiry(c, d)
    /\ calls[d].pc = "done"
    /\ calls[d].api[1].value # calls[c].api[1].value
    /\ calls[d].lookupKey \in DOMAIN cache
    /\ cache[calls[d].lookupKey].writer = d
    /\ cache[calls[d].lookupKey].value = calls[d].api[1].value

\* C16: within one call the cache read comes first; the upstream request is
\* sent at most once and only after the read observed a miss; the cache set
\* is invoked at most once and only after the upstream call returned with
\* success and its body was normalized, with the normalized sequence.
C16_StrictlySequential ==
  \A c \in CallIds :
    /\ calls[c].pc # "idle" => calls[c].got # None
    /\ Len(calls[c].requests) <= 1
    /\ Len(calls[c].requests) = 1 => calls[c].got = Some(Returned(Undefined))
    /\ calls[c].response # None => Len(calls[c].requests) = 1
    /\ Len(calls[c].sets) <= 1
    /\ Len(calls[c].sets) = 1
         => /\ Len(calls[c].requests) = 1
            /\ calls[c].response # None
            /\ calls[c].response[1].ok
            /\ ApiResolved(c)
            /\ calls[c].sets[1].value = calls[c].api[1].value

\* A call has gone through all three steps: read, upstream request, write.
C16_Witness ==
  \E c \in CallIds :
    /\ calls[c].pc = "done"
    /\ calls[c].got = Some(Returned(Undefined))
    /\ Len(calls[c].requests) = 1
    /\ calls[c].response[1].ok
    /\ Len(calls[c].sets) = 1

\* Invocation c missed on an absent key and failed on the upstream path.
FailedUpstream(c) ==
  /\ calls[c].pc = "failed"
  /\ ApiRejected(c)
  /\ calls[c].stored = Undefined

\* C19: when the upstream fetch of a call fails after a miss, the step that
\* fails the call invokes no cache set and leaves the store as it was; and a
\* call that starts for the same coordinates after the failure, with no write
\* of another call stored since the failed call's read, is a miss again.
C19_FailedFetchLeavesCache ==
  [][/\ \A c \in CallIds :
          (/\ calls[c].pc = "apiSettled"
           /\ ~calls[c].api[1].ok
           /\ calls'[c].pc = "failed")
            => /\ cache' = cache
               /\ calls'[c].sets = <<>>
               /\ calls'[c].writeNo = 0
     /\ \A c, d \in CallIds :
          (/\ FailedUpstream(c)
           /\ calls[c].writesSeen = WritesStored
           /\ calls[d].pc = "idle"
           /\ calls'[d].pc # "idle"
           /\ calls'[d].lat = calls[c].lat
           /\ calls'[d].lng = calls[c].lng)
            => /\ calls'[d].stored = Undefined
               /\ calls'[d].pc \in {"awaitApi", "failed"}]_vars

C19_Witness ==
  \E c, d \in CallIds :
    /\ c < d
    /\ FailedUpstream(c)
    /\ calls[c].sets = <<>>
    /\ SameCoords(c, d)
    /\ calls[d].writesSeen = calls[c].writesSeen
    /\ calls[d].stored = Undefined
    /\ calls[d].got = Some(Returned(Undefined))
    /\ Len(calls[d].requests) = 1
    /\ calls[c].lookupKey \notin DOMAIN cache

\* Invocation w sent one upstream request, for its own (lat, lng), and
\* `points` is what its response was normalized to.
FetchedFor(w, points) ==
  /\ calls[w].requests = <<ApiRequest(calls[w].lat, calls[w].lng)>>
  /\ calls[w].response # None
  /\ calls[w].response[1].ok
  /\ normalizeResponse(calls[w].response[1].value.data) = Returned(points)

\* C20: under any interleaving of calls for equal or different coordinates,
\* every cache entry holds the points normalized from the response to the
\* request of its writer and lies under the key of the writer's (lat, lng),
\* which no call for other coordinates looks up; and a call that returns,
\* returns points fetched for its own coordinates, by itself or by the writer
\* of the entry it read.
C20_EntriesBelongToTheirCoordinates ==
  /\ \A k \in DOMAIN cache :
       LET w == cache[k].writer
       IN  /\ k = getCacheKey(calls[w].lat, calls[w].lng)
           /\ FetchedFor(w, cache[k].value)
           /\ \A d \in CallIds :
                (calls[d].pc # "idle" /\ calls[d].lookupKey = k)
                  => SameCoords(w, d)
  /\ \A d \in CallIds :
       (calls[d].pc = "done")
         => IF ReadFrom(d) # 0
              THEN /\ SameCoords(ReadFrom(d), d)
                   /\ calls[d].requests = <<>>
                   /\ FetchedFor(ReadFrom(d), calls[d].outcome[1].value)
              ELSE FetchedFor(d, calls[d].outcome[1].value)

C20_Witness ==
  \E c, d \in CallIds :
    /\ ~SameCoords(c, d)
    /\ MissedAndWrote(c)
    /\ MissedAndWrote(d)
    /\ calls[c].writesSeen < calls[d].writeNo
    /\ calls[d].writesSeen < calls[c].writeNo
    /\ calls[c].lookupKey # calls[d].lookupKey
    /\ {calls[c].lookupKey, calls[d].lookupKey} \subseteq DOMAIN cache
    /\ cache[calls[c].lookupKey].writer = c
    /\ cache[calls[d].lookupKey].writer = d
    /\ cache[calls[c].lookupKey].value # cache[calls[d].lookupKey].value

\* ----------------------------------------- properties of the key derivation

\* C11: the key of a coordinate pair is the same each time it is derived, and
\* two pairs have the same key only if they are the same pair.
C11_KeyDeterministicInjective ==
  /\ Len(kOut) >= 2 => (kOut[1] = kOut[2] <=> kIn[1] = kIn[2])
  /\ Len(kOut) = 3 => kOut[3] = kOut[1]

\* The keys of (1, 11) and (11, 1), whose digits read the same in a row, have
\* been derived and differ, and the key of (1, 11) has been derived again.
C11_Witness ==
  /\ kIn = << <<1, 11>>, <<11, 1>> >>
  /\ Len(kOut) = 3
  /\ kOut[1] # kOut[2]
  /\ kOut[3] = kOut[1]

====
